---- MODULE Spec2Model ----
(***************************************************************************)
(* Model of mso5k_dumpfb (src/src/main.rs): a single-shot tool that        *)
(* switches the framebuffer device to a layer, maps it, switches back and  *)
(* writes the layer raw or decoded to RGBA.                                *)
(*                                                                         *)
(* Spec  : the run of main(), one action per fallible step, with the       *)
(*         device and the operating system as nondeterministic outcomes.   *)
(* SpecB : the RGB565 ("Format B") pixel decode of main.rs:135-150.        *)
(* SpecA : the 32-bit ("Format A") pixel decode of main.rs:122-134.        *)
(***************************************************************************)
EXTENDS Integers, Sequences, FiniteSets, TLC

VARIABLES
    argLayer,     \* the LAYER positional argument: [kind, value]
    argPrint,     \* --printscreen present
    argRaw,       \* --raw present
    devLayer,     \* the device's active layer (hardware state)
    devInit,      \* the device's active layer when the program started
    pc,           \* position of main()
    layer,        \* let layer (line 49)
    width, height, bytes_per_pixel, layer_len,   \* lines 64-76
    old_layer,    \* let old_layer (line 100)
    mapped,       \* the mmap of line 103 exists
    result,       \* what main() returned: [kind, code]
    trace,        \* system calls and writes issued so far, in order
    window,       \* decode models: the bytes of the mapped window
    buf,          \* decode models: the row buffer handed to the writer
    dpc           \* decode models: position of the decode

vars == <<argLayer, argPrint, argRaw, devLayer, devInit, pc, layer, width,
          height, bytes_per_pixel, layer_len, old_layer, mapped, result,
          trace, window, buf, dpc>>

runVars == <<argLayer, argPrint, argRaw, devLayer, devInit, pc, layer, width,
             height, bytes_per_pixel, layer_len, old_layer, mapped, result,
             trace>>

decVars == <<window, buf, dpc>>

----------------------------------------------------------------------------
(* Bounds of the model *)

\* layer arguments tried are -ArgSpan .. 5 + ArgSpan
ArgSpan == 2

(* Values the environment can produce *)

\* return values of libc::ioctl: 0 is success, anything else is an error
IoctlReturns == {0, -1}

\* result codes the hardware reports for a printscreen
PrintscreenCodes == {0, 3}

\* layers the device can have active
DeviceLayers == 0..5

\* bytes tried for the channels of a 32-bit pixel
ByteSamples == {0, 16, 32, 48, 203, 204, 255}

ArgLayers ==
    {[kind |-> "none", value |-> 0], [kind |-> "unparsable", value |-> 0]}
    \cup {[kind |-> "int", value |-> v] : v \in (0 - ArgSpan)..(5 + ArgSpan)}

----------------------------------------------------------------------------
(* Layer metrics, main.rs:64-76 *)

\* Width with layer 2 forgotten in the 1000-pixel arm
Width_OnlyLayer1(l) == IF l = 1 THEN 1000 ELSE 1024

Width(l) == IF l = 1 \/ l = 2 THEN 1000 ELSE 1024

Height(l) == IF l = 1 \/ l = 2 THEN 480 ELSE 600

BytesPerPixel(l) == IF l = 1 THEN 4 ELSE 2

LayerLen(l) == Width(l) * Height(l) * BytesPerPixel(l)

\* the decode branch taken for a layer, main.rs:121-135
Format(l) == IF l = 1 THEN "A" ELSE "B"

----------------------------------------------------------------------------
(* Helpers of the run *)

Event(op, line, arg, res) == [op |-> op, line |-> line, arg |-> arg, res |-> res]

Running == [kind |-> "running", code |-> 0]

Return(kind, code) == [kind |-> kind, code |-> code]

\* what the device's active layer is after ioctl 0x0f000000 with idx
DeviceAfterSwap(cur, idx, res) == IF res = 0 THEN idx ELSE cur

----------------------------------------------------------------------------
(* The run of main() *)

Init ==
    /\ argLayer \in ArgLayers
    /\ argPrint \in BOOLEAN
    /\ argRaw \in BOOLEAN
    /\ devInit \in DeviceLayers
    /\ devLayer = devInit
    /\ pc = "args"
    /\ layer = 0
    /\ width = 0
    /\ height = 0
    /\ bytes_per_pixel = 0
    /\ layer_len = 0
    /\ old_layer = -1
    /\ mapped = FALSE
    /\ result = Running
    /\ trace = <<>>
    /\ window = <<>>
    /\ buf = <<>>
    /\ dpc = "off"

\* main() returns: nothing further is executed
Exit(kind, code, events) ==
    /\ pc' = "done"
    /\ result' = Return(kind, code)
    /\ trace' = trace \o events

Goto(next, events) ==
    /\ pc' = next
    /\ result' = result
    /\ trace' = trace \o events

\* ResolveLayer with the printscreen default taken as layer 0
ResolveLayer_DefaultZero(arg, printscreen) ==
    IF arg.kind = "int" THEN arg.value
    ELSE IF arg.kind = "none" /\ printscreen THEN 0
    ELSE -1

\* main.rs:49-58, the layer to dump; -1 stands for "main returned"
ResolveLayer(arg, printscreen) ==
    IF arg.kind = "int" THEN arg.value
    ELSE IF arg.kind = "none" /\ printscreen THEN 4
    ELSE -1

\* main.rs:49-76: parse the layer, check its range, compute the metrics
ParseArgs ==
    /\ pc = "args"
    /\ UNCHANGED <<argLayer, argPrint, argRaw, devLayer, devInit, old_layer, mapped>>
    /\ UNCHANGED decVars
    /\ IF argLayer.kind = "unparsable"
       THEN /\ Exit("ParseIntError", 0, <<>>)
            /\ UNCHANGED <<layer, width, height, bytes_per_pixel, layer_len>>
       ELSE IF argLayer.kind = "none" /\ ~argPrint
       THEN /\ Exit("NoLayerGiven", 0, <<>>)
            /\ UNCHANGED <<layer, width, height, bytes_per_pixel, layer_len>>
       ELSE LET l == ResolveLayer(argLayer, argPrint) IN
            /\ layer' = l
            /\ IF l > 5 \/ l < 0
               THEN /\ Exit("LayerOutOfRange", l, <<>>)
                    /\ UNCHANGED <<width, height, bytes_per_pixel, layer_len>>
               ELSE /\ width' = Width(l)
                    /\ height' = Height(l)
                    /\ bytes_per_pixel' = BytesPerPixel(l)
                    /\ layer_len' = LayerLen(l)
                    /\ Goto("open", <<>>)

\* main.rs:79-83: open the output (created if missing), then the device
OpenFiles ==
    /\ pc = "open"
    /\ UNCHANGED <<argLayer, argPrint, argRaw, devLayer, devInit, layer, width,
                   height, bytes_per_pixel, layer_len, old_layer, mapped>>
    /\ UNCHANGED decVars
    /\ \E outOk \in BOOLEAN, inOk \in BOOLEAN :
         IF ~outOk
         THEN Exit("IoError", 81, <<Event("open_output", 81, 0, -1)>>)
         ELSE IF ~inOk
         THEN Exit("IoError", 83, <<Event("open_output", 81, 0, 0),
                                    Event("open_input", 83, 0, -1)>>)
         ELSE Goto(IF argPrint THEN "printscreen" ELSE "query",
                   <<Event("open_output", 81, 0, 0),
                     Event("open_input", 83, 0, 0)>>)

\* TakePrintscreen without the check of the hardware's result code
TakePrintscreen_CodeIgnored ==
    /\ pc = "printscreen"
    /\ UNCHANGED <<argLayer, argPrint, argRaw, devLayer, devInit, layer, width,
                   height, bytes_per_pixel, layer_len, old_layer, mapped>>
    /\ UNCHANGED decVars
    /\ \E res \in IoctlReturns, code \in PrintscreenCodes :
         LET call == Event("ioctl_printscreen", 87, code, res) IN
         IF res # 0
         THEN Exit("IoctlError", res, <<call>>)
         ELSE IF layer # 4
         THEN Goto("query", <<call, Event("notice_layer_differs", 95, layer, 0)>>)
         ELSE Goto("query", <<call>>)

\* main.rs:86-97 with do_printscreen (195-206): res is the ioctl's return
\* value, code the value the hardware stores through result_ptr; the call is
\* not a layer switch, so the device's active layer is left as it is
TakePrintscreen ==
    /\ pc = "printscreen"
    /\ UNCHANGED <<argLayer, argPrint, argRaw, devLayer, devInit, layer, width,
                   height, bytes_per_pixel, layer_len, old_layer, mapped>>
    /\ UNCHANGED decVars
    /\ \E res \in IoctlReturns, code \in PrintscreenCodes :
         LET call == Event("ioctl_printscreen", 87, code, res) IN
         IF res # 0
         THEN Exit("IoctlError", res, <<call>>)
         ELSE IF code # 0
         THEN Exit("PrintscreenFailed", code, <<call>>)
         ELSE IF layer # 4
         THEN Goto("query", <<call, Event("notice_layer_differs", 95, layer, 0)>>)
         ELSE Goto("query", <<call>>)

\* main.rs:100-101 with get_layer (171-182)
QueryLayer ==
    /\ pc = "query"
    /\ UNCHANGED <<argLayer, argPrint, argRaw, devLayer, devInit, layer, width,
                   height, bytes_per_pixel, layer_len, mapped>>
    /\ UNCHANGED decVars
    /\ \E res \in IoctlReturns :
         IF res # 0
         THEN /\ Exit("IoctlError", res, <<Event("ioctl_get_layer", 100, -1, res)>>)
              /\ UNCHANGED old_layer
         ELSE /\ old_layer' = devLayer
              /\ Goto("switch", <<Event("ioctl_get_layer", 100, devLayer, res)>>)

\* SwitchToTarget with the `?` dropped: a failed switch is ignored
SwitchToTarget_ErrorIgnored ==
    /\ pc = "switch"
    /\ UNCHANGED <<argLayer, argPrint, argRaw, devInit, layer, width,
                   height, bytes_per_pixel, layer_len, old_layer, mapped>>
    /\ UNCHANGED decVars
    /\ \E res \in IoctlReturns :
         /\ devLayer' = DeviceAfterSwap(devLayer, layer, res)
         /\ Goto("map", <<Event("ioctl_swap_layer", 102, layer, res)>>)

\* main.rs:102 with swap_layer (184-193): switch to the layer to dump
SwitchToTarget ==
    /\ pc = "switch"
    /\ UNCHANGED <<argLayer, argPrint, argRaw, devInit, layer, width,
                   height, bytes_per_pixel, layer_len, old_layer, mapped>>
    /\ UNCHANGED decVars
    /\ \E res \in IoctlReturns :
         /\ devLayer' = DeviceAfterSwap(devLayer, layer, res)
         /\ IF res # 0
            THEN Exit("IoctlError", res, <<Event("ioctl_swap_layer", 102, layer, res)>>)
            ELSE Goto("map", <<Event("ioctl_swap_layer", 102, layer, res)>>)

\* main.rs:103: map layer_len bytes of the device; `?` returns on failure
MapWindow ==
    /\ pc = "map"
    /\ UNCHANGED <<argLayer, argPrint, argRaw, devLayer, devInit, layer, width,
                   height, bytes_per_pixel, layer_len, old_layer>>
    /\ UNCHANGED decVars
    /\ \E ok \in BOOLEAN :
         IF ~ok
         THEN /\ Exit("MmapError", 0, <<Event("mmap", 103, layer_len, -1)>>)
              /\ UNCHANGED mapped
         ELSE /\ mapped' = TRUE
              /\ Goto("restore", <<Event("mmap", 103, layer_len, 0)>>)

\* RestoreLayer passing layer instead of old_layer
RestoreLayer_ToTarget ==
    /\ pc = "restore"
    /\ UNCHANGED <<argLayer, argPrint, argRaw, devInit, layer, width,
                   height, bytes_per_pixel, layer_len, old_layer, mapped>>
    /\ UNCHANGED decVars
    /\ \E res \in IoctlReturns :
         /\ devLayer' = DeviceAfterSwap(devLayer, layer, res)
         /\ IF res # 0
            THEN Exit("IoctlError", res, <<Event("ioctl_swap_layer", 104, layer, res)>>)
            ELSE Goto("output", <<Event("ioctl_swap_layer", 104, layer, res)>>)

\* RestoreLayer with the `?` dropped: a failed restore is ignored
RestoreLayer_ErrorIgnored ==
    /\ pc = "restore"
    /\ UNCHANGED <<argLayer, argPrint, argRaw, devInit, layer, width,
                   height, bytes_per_pixel, layer_len, old_layer, mapped>>
    /\ UNCHANGED decVars
    /\ \E res \in IoctlReturns :
         /\ devLayer' = DeviceAfterSwap(devLayer, old_layer, res)
         /\ Goto("output", <<Event("ioctl_swap_layer", 104, old_layer, res)>>)

\* main.rs:104-105 with swap_layer (184-193): switch back to old_layer
RestoreLayer ==
    /\ pc = "restore"
    /\ UNCHANGED <<argLayer, argPrint, argRaw, devInit, layer, width,
                   height, bytes_per_pixel, layer_len, old_layer, mapped>>
    /\ UNCHANGED decVars
    /\ \E res \in IoctlReturns :
         /\ devLayer' = DeviceAfterSwap(devLayer, old_layer, res)
         /\ IF res # 0
            THEN Exit("IoctlError", res, <<Event("ioctl_swap_layer", 104, old_layer, res)>>)
            ELSE Goto("output", <<Event("ioctl_swap_layer", 104, old_layer, res)>>)

\* main.rs:108-157: write the window raw (109), or the PNG header (114-116,
\* unwrap panics on failure) and then the decoded rows (119-154)
WriteOutput ==
    /\ pc = "output"
    /\ UNCHANGED <<argLayer, argPrint, argRaw, devLayer, devInit, layer, width,
                   height, bytes_per_pixel, layer_len, old_layer, mapped>>
    /\ UNCHANGED decVars
    /\ IF argRaw
       THEN \E ok \in BOOLEAN :
              Exit(IF ok THEN "Ok" ELSE "IoError", 109,
                   <<Event("read_window", 109, layer_len, 0),
                     Event("write_output", 109, layer_len, IF ok THEN 0 ELSE -1)>>)
       ELSE \E headerOk \in BOOLEAN, rowsOk \in BOOLEAN :
              IF ~headerOk
              THEN Exit("Panic", 116, <<Event("write_output", 115, 0, -1)>>)
              ELSE Exit(IF rowsOk THEN "Ok" ELSE "IoError", 152,
                        <<Event("write_output", 115, 0, 0),
                          Event("read_window", IF Format(layer) = "A" THEN 123 ELSE 138,
                                layer_len, 0),
                          Event("write_output", 152, width * height * 4,
                                IF rowsOk THEN 0 ELSE -1)>>)

Next ==
    \/ ParseArgs
    \/ OpenFiles
    \/ TakePrintscreen
    \/ QueryLayer
    \/ SwitchToTarget
    \/ MapWindow
    \/ RestoreLayer
    \/ WriteOutput

Spec == Init /\ [][Next]_vars

TypeOK ==
    /\ argLayer \in ArgLayers
    /\ pc \in {"args", "open", "printscreen", "query", "switch", "map",
               "restore", "output", "done"}
    /\ devLayer \in DeviceLayers
    /\ (pc = "done") = (result.kind # "running")

----------------------------------------------------------------------------
(* Pixel arithmetic of the decoder, main.rs:119-151 *)

RECURSIVE BitAnd(_, _)
\* a & b on naturals
BitAnd(a, b) ==
    IF a = 0 \/ b = 0 THEN 0
    ELSE (a % 2) * (b % 2) + 2 * BitAnd(a \div 2, b \div 2)

RECURSIVE BitOr(_, _)
\* a | b on naturals
BitOr(a, b) ==
    IF a = 0 THEN b
    ELSE IF b = 0 THEN a
    ELSE (IF a % 2 = 1 \/ b % 2 = 1 THEN 1 ELSE 0) + 2 * BitOr(a \div 2, b \div 2)

RECURSIVE Pow2(_)
Pow2(n) == IF n = 0 THEN 1 ELSE 2 * Pow2(n - 1)

\* x >> n
Shr(x, n) == x \div Pow2(n)

\* x << n in u16 arithmetic: bits shifted past bit 15 are lost
Shl16(x, n) == (x * Pow2(n)) % 65536

\* x as u8: the low eight bits
AsU8(x) == x % 256

\* mmap[i], zero-based
ByteAt(w, i) == w[i + 1]

\* Packed with the two bytes taken in the other order
Packed_BigEndian(w, row, wd, pix) ==
    BitOr(Shl16(ByteAt(w, (row * wd + pix) * 2), 8),
          ByteAt(w, (row * wd + pix) * 2 + 1))

\* main.rs:138-139: the u16 of pixel pix of row row
Packed(w, row, wd, pix) ==
    BitOr(Shl16(ByteAt(w, (row * wd + pix) * 2 + 1), 8),
          ByteAt(w, (row * wd + pix) * 2))

\* PixelB with the green mask one bit short (0x7c0)
PixelB_NarrowGreen(packed) ==
    << AsU8(Shr(BitAnd(packed, 63488), 8)),
       AsU8(Shr(BitAnd(packed, 1984), 3)),
       AsU8(Shl16(BitAnd(packed, 31), 3)),
       IF packed = 52428 THEN 0 ELSE 255 >>

\* main.rs:140-148: the four bytes stored for an RGB565 value
PixelB(packed) ==
    << AsU8(Shr(BitAnd(packed, 63488), 8)),
       AsU8(Shr(BitAnd(packed, 2016), 3)),
       AsU8(Shl16(BitAnd(packed, 31), 3)),
       IF packed = 52428 THEN 0 ELSE 255 >>

\* main.rs:137-149: the row buffer after the loop over the row's pixels
RowB(w, row, wd) ==
    [k \in 1..(wd * 4) |->
        PixelB(Packed(w, row, wd, (k - 1) \div 4))[((k - 1) % 4) + 1]]

\* PixelA with the key test joined by && instead of ||
PixelA_AllDiffer(p) ==
    IF p[1] # 204 /\ p[2] # 204 /\ p[3] # 204
    THEN <<p[3], p[2], p[1], 255>>
    ELSE p

\* main.rs:125-132: the four bytes of a 32-bit pixel after the key test
PixelA(p) ==
    IF p[1] # 204 \/ p[2] # 204 \/ p[3] # 204
    THEN <<p[3], p[2], p[1], 255>>
    ELSE p

\* main.rs:123-133: copy the row, then fix up each pixel in place
RowA(w, row, wd) ==
    LET copied == [k \in 1..(wd * 4) |-> ByteAt(w, row * wd * 4 + (k - 1))]
    IN  [k \in 1..(wd * 4) |->
            PixelA(SubSeq(copied, 4 * ((k - 1) \div 4) + 1,
                                  4 * ((k - 1) \div 4) + 4))[((k - 1) % 4) + 1]]

----------------------------------------------------------------------------
(* The decode of one row of one pixel, for every content of the window *)

\* the run is past the restore; only the decode variables move
DecodeContext ==
    /\ argLayer = [kind |-> "none", value |-> 0]
    /\ argPrint = TRUE
    /\ argRaw = FALSE
    /\ devInit = 0
    /\ devLayer = 0
    /\ pc = "output"
    /\ width = 1
    /\ height = 1
    /\ old_layer = 0
    /\ mapped = TRUE
    /\ result = Running
    /\ trace = <<>>
    /\ buf = <<0, 0, 0, 0>>
    /\ dpc = "row"

InitB ==
    /\ DecodeContext
    /\ layer = 4
    /\ bytes_per_pixel = 2
    /\ layer_len = 2
    /\ window \in [1..2 -> 0..255]

\* main.rs:135-152 for a layer other than 1
DecodeRowB ==
    /\ dpc = "row"
    /\ Format(layer) = "B"
    /\ buf' = RowB(window, 0, width)
    /\ dpc' = "written"
    /\ UNCHANGED window
    /\ UNCHANGED runVars

NextB == DecodeRowB

SpecB == InitB /\ [][NextB]_vars

InitA ==
    /\ DecodeContext
    /\ layer = 1
    /\ bytes_per_pixel = 4
    /\ layer_len = 4
    /\ window \in [1..4 -> ByteSamples]

\* main.rs:122-134 and 152 for layer 1
DecodeRowA ==
    /\ dpc = "row"
    /\ Format(layer) = "A"
    /\ buf' = RowA(window, 0, width)
    /\ dpc' = "written"
    /\ UNCHANGED window
    /\ UNCHANGED runVars

NextA == DecodeRowA

SpecA == InitA /\ [][NextA]_vars

----------------------------------------------------------------------------
(* Properties of the run *)

Idx == 1..Len(trace)

IsSwitch(e) == e.op = "ioctl_swap_layer" /\ e.line = 102

IsRestore(e) == e.op = "ioctl_swap_layer" /\ e.line = 104

IsOutput(e) == e.op \in {"read_window", "write_output"}

IsDeviceCall(e) ==
    e.op \in {"ioctl_printscreen", "ioctl_get_layer", "ioctl_swap_layer", "mmap"}

\* C1: when the switch to the target layer succeeded and the mapping then
\* failed, a switch call carrying the original layer is issued after the
\* failed mapping and before main returns, and main returns the mapping error.
C1_RestoreAfterMapFailure ==
    \A i \in Idx :
        (pc = "done" /\ trace[i].op = "mmap" /\ trace[i].res # 0)
        => /\ result.kind = "MmapError"
           /\ \E j \in Idx : /\ j > i
                             /\ trace[j].op = "ioctl_swap_layer"
                             /\ trace[j].arg = old_layer

\* C2: once the query, both switches and the mapping have succeeded, the
\* device's active layer is the original layer the query returned, whatever
\* the output mode and whatever happens to the output afterwards.
C2_RestoredOnSuccess ==
    \A i \in Idx :
        (IsRestore(trace[i]) /\ trace[i].res = 0)
        => /\ devLayer = old_layer
           /\ \E q \in Idx : /\ q < i
                             /\ trace[q].op = "ioctl_get_layer"
                             /\ trace[q].res = 0
                             /\ trace[q].arg = devLayer

C2_Witness ==
    /\ pc = "done"
    /\ result.kind = "Ok"
    /\ old_layer = 2
    /\ layer = 4
    /\ devLayer = 2
    /\ \E i \in Idx : IsSwitch(trace[i]) /\ trace[i].arg = 4 /\ trace[i].res = 0

\* C3: a switch to the target layer that returns non-zero is the last thing
\* the run does: main returns that ioctl error, and no further switch, no
\* mapping and no output follows it.
C3_FailedSwitchStops ==
    \A i \in Idx :
        (IsSwitch(trace[i]) /\ trace[i].res # 0)
        => /\ i = Len(trace)
           /\ pc = "done"
           /\ result = Return("IoctlError", trace[i].res)
           /\ ~mapped
           /\ \A j \in Idx : ~IsRestore(trace[j]) /\ ~IsOutput(trace[j])
                             /\ trace[j].op # "mmap"

C3_Witness ==
    /\ pc = "done"
    /\ result.kind = "IoctlError"
    /\ Len(trace) > 0
    /\ IsSwitch(trace[Len(trace)])
    /\ trace[Len(trace)].res # 0

\* C4: the steps come in the order query, switch to target, map, switch back:
\* each is directly preceded by the success of the one before; every read of
\* the window and every output write comes after a successful switch back to
\* the original layer; a failed switch back leaves no output at all.
C4_SessionOrder ==
    \A j \in Idx :
        /\ IsSwitch(trace[j])
           => j > 1 /\ trace[j - 1].op = "ioctl_get_layer" /\ trace[j - 1].res = 0
        /\ trace[j].op = "mmap"
           => j > 1 /\ IsSwitch(trace[j - 1]) /\ trace[j - 1].res = 0
                    /\ trace[j - 1].arg = layer
        /\ IsRestore(trace[j])
           => j > 1 /\ trace[j - 1].op = "mmap" /\ trace[j - 1].res = 0
                    /\ trace[j].arg = old_layer
        /\ IsOutput(trace[j])
           => \E i \in Idx : i < j /\ IsRestore(trace[i]) /\ trace[i].res = 0
        /\ (IsRestore(trace[j]) /\ trace[j].res # 0)
           => \A k \in Idx : ~IsOutput(trace[k])

C4_Witness ==
    /\ pc = "done"
    /\ \E i, j, k \in Idx :
          /\ i < j /\ j < k
          /\ IsRestore(trace[i])
          /\ trace[j].op = "read_window"
          /\ trace[k].op = "write_output"

\* C5: a printscreen call that returns non-zero, or that succeeds with a
\* non-zero hardware result code, ends the run with IoctlError or with
\* PrintscreenFailed respectively; no query-layer or switch-layer call is
\* issued and the device's active layer is what it was at the start.
C5_FailedPrintscreenStops ==
    \A i \in Idx :
        (trace[i].op = "ioctl_printscreen" /\ (trace[i].res # 0 \/ trace[i].arg # 0))
        => /\ argPrint
           /\ pc = "done"
           /\ i = Len(trace)
           /\ result = IF trace[i].res # 0
                       THEN Return("IoctlError", trace[i].res)
                       ELSE Return("PrintscreenFailed", trace[i].arg)
           /\ \A j \in Idx : trace[j].op \notin {"ioctl_get_layer", "ioctl_swap_layer"}
           /\ devLayer = devInit

C5_Witness ==
    /\ pc = "done"
    /\ result.kind = "PrintscreenFailed"
    /\ result.code # 0
    /\ \E i \in Idx : trace[i].op = "ioctl_printscreen" /\ trace[i].res = 0

\* C6: with the printscreen flag and no layer argument the layer is 4; with
\* the flag and an explicit valid layer other than 4 the notice directly
\* follows the successful printscreen, the run continues with the query, and
\* the switch and the mapping are those of the explicit layer; with neither
\* flag nor layer the run fails before any call on the device.
C6_TargetResolution ==
    /\ (argPrint /\ argLayer.kind = "none" /\ pc # "args")
       => layer = 4 /\ result.kind # "NoLayerGiven"
    /\ \A i \in Idx :
        (/\ argLayer.kind = "int"
         /\ argLayer.value # 4
         /\ trace[i].op = "ioctl_printscreen"
         /\ trace[i].res = 0
         /\ trace[i].arg = 0)
        => /\ Len(trace) > i
           /\ trace[i + 1].op = "notice_layer_differs"
           /\ (Len(trace) = i + 1 => pc = "query" /\ result = Running)
           /\ \A j \in Idx :
                /\ IsSwitch(trace[j]) => trace[j].arg = argLayer.value
                /\ trace[j].op = "mmap" => trace[j].arg = LayerLen(argLayer.value)
    /\ (~argPrint /\ argLayer.kind = "none" /\ pc # "args")
       => pc = "done" /\ result.kind = "NoLayerGiven" /\ trace = <<>>

C6_Witness ==
    /\ argPrint
    /\ argLayer = [kind |-> "int", value |-> 2]
    /\ pc = "done"
    /\ result.kind = "Ok"
    /\ \E i, j, k \in Idx :
          /\ i < j /\ j < k
          /\ trace[i].op = "notice_layer_differs"
          /\ IsSwitch(trace[j]) /\ trace[j].arg = 2 /\ trace[j].res = 0
          /\ trace[k].op = "write_output" /\ trace[k].res = 0

\* the documented geometry: width, height, bytes per pixel, format, length
GeometryTable ==
    [l \in 0..5 |->
        CASE l = 0 -> <<1024, 600, 2, "B", 1228800>>
          [] l = 1 -> <<1000, 480, 4, "A", 1920000>>
          [] l = 2 -> <<1000, 480, 2, "B", 960000>>
          [] l = 3 -> <<1024, 600, 2, "B", 1228800>>
          [] l = 4 -> <<1024, 600, 2, "B", 1228800>>
          [] l = 5 -> <<1024, 600, 2, "B", 1228800>>]

\* C7: once the arguments are accepted the layer is in 0..5 and its width,
\* height, bytes per pixel, format and length are those of the fixed table,
\* and the window is mapped with that length; a layer argument outside 0..5
\* ends the run with the range error before the device is opened or called.
C7_Geometry ==
    /\ pc \notin {"args", "done"} \/ (pc = "done" /\ trace # <<>>)
       => /\ layer \in 0..5
          /\ <<width, height, bytes_per_pixel, Format(layer), layer_len>>
                = GeometryTable[layer]
          /\ layer_len = GeometryTable[layer][1] * GeometryTable[layer][2]
                            * GeometryTable[layer][3]
          /\ \A i \in Idx : trace[i].op = "mmap"
                              => trace[i].arg = GeometryTable[layer][5]
    /\ (argLayer.kind = "int" /\ argLayer.value \notin 0..5 /\ pc # "args")
       => /\ pc = "done"
          /\ result = Return("LayerOutOfRange", argLayer.value)
          /\ trace = <<>>

C7_Witness ==
    /\ layer = 2
    /\ argLayer = [kind |-> "int", value |-> 2]
    /\ mapped
    /\ \E i \in Idx : trace[i].op = "mmap" /\ trace[i].arg = 960000 /\ trace[i].res = 0

----------------------------------------------------------------------------
(* Properties of the decode *)

\* the 16-bit value of the window's pixel, low byte first
PackedValue == window[2] * 256 + window[1]

\* C8 as stated: 0x0000 gives (0,0,0,255), 0xFFFF gives (0xF8,0xFC,0xF8,255)
\* and 0xCCCC gives (0xC8,0xC0,0x18,0).
C8_ExamplesAsStated ==
    dpc = "written"
    => /\ PackedValue = 0 => buf = <<0, 0, 0, 255>>
       /\ PackedValue = 65535 => buf = <<248, 252, 248, 255>>
       /\ PackedValue = 52428 => buf = <<200, 192, 24, 0>>

\* C8 amended: 0x0000 gives (0,0,0,255), 0xFFFF gives (0xF8,0xFC,0xF8,255)
\* and 0xCCCC gives (0xC8,0x98,0x60,0).
C8_Examples ==
    dpc = "written"
    => /\ PackedValue = 0 => buf = <<0, 0, 0, 255>>
       /\ PackedValue = 65535 => buf = <<248, 252, 248, 255>>
       /\ PackedValue = 52428 => buf = <<200, 152, 96, 0>>

C8_Witness ==
    /\ dpc = "written"
    /\ window = <<204, 204>>
    /\ buf[4] = 0

\* C9: for every pair of bytes (lo, hi), with packed = hi*256 + lo, the pixel
\* is R = the top 5 bits of packed times 8, G = the middle 6 bits times 4,
\* B = the low 5 bits times 8 (the masked and shifted fields, all below 256,
\* so the cast to a byte loses nothing), and A is 0 exactly for 0xCCCC and
\* 255 otherwise.
C9_FormatB ==
    dpc = "written"
    => /\ Len(buf) = 4
       /\ buf[1] = 8 * (PackedValue \div 2048)
       /\ buf[2] = 4 * ((PackedValue \div 32) % 64)
       /\ buf[3] = 8 * (PackedValue % 32)
       /\ \A k \in 1..3 : buf[k] \in 0..255
       /\ (buf[4] = 0) = (PackedValue = 52428)
       /\ buf[4] # 0 => buf[4] = 255

C9_Witness ==
    /\ dpc = "written"
    /\ window = <<52, 18>>
    /\ buf = <<16, 68, 160, 255>>

\* C10: a 32-bit pixel whose first three bytes are all 0xCC is output
\* unchanged, fourth byte included; any other pixel, also one with only one
\* or two of those bytes equal to 0xCC, is output as (b2, b1, b0, 0xFF).
C10_FormatA ==
    dpc = "written"
    => /\ Len(buf) = 4
       /\ IF window[1] = 204 /\ window[2] = 204 /\ window[3] = 204
          THEN buf = window
          ELSE buf = <<window[3], window[2], window[1], 255>>
       /\ window = <<16, 32, 48, 0>> => buf = <<48, 32, 16, 255>>

C10_Witness ==
    /\ dpc = "written"
    /\ window = <<204, 204, 16, 0>>
    /\ buf = <<16, 204, 204, 255>>

====
